---- MODULE Spec2Model ----
(***************************************************************************)
(* A model of julianshen/mongoproxy: the MongoDB wire-protocol codec       *)
(* (ReadRequest / WriteRequest and their helpers) at the byte level, and   *)
(* the per-connection relay loop Proxy.handleConnection.                   *)
(*                                                                         *)
(* A byte is an integer 0..255, a stream a sequence of bytes.  An int32 is *)
(* a signed integer; an int64 is kept as its two little-endian 32-bit      *)
(* halves [lo, hi] because the values do not fit a 32-bit integer.         *)
(* A bson.D is [isNil, elems] with elems a sequence of [Name, Value], a    *)
(* Value being [type, v]: type names the Go type bson.Unmarshal gives an   *)
(* element kind (or a type BSON has no kind for, a chan), v is the value.  *)
(* Values of 8, 12 and 16 bytes that the codec only carries (float64,      *)
(* ObjectId, Decimal128) are kept as their bytes.  A bson.M (the scope of  *)
(* a JavaScript value and every document inside it) is a function from its *)
(* names to their values; the order in which bson.Marshal writes its names *)
(* is Go's map iteration order, which is any order, so that marshalling    *)
(* gives a set of outcomes.                                                *)
(***************************************************************************)
EXTENDS Integers, Sequences, FiniteSets, TLC

(***************************************************************************)
(* Bytes and little-endian integers (encoding/binary, binary.LittleEndian) *)
(***************************************************************************)
\* the four little-endian bytes of the int32 n (two's complement)
LE32(n) ==
  << n % 256, (n \div 256) % 256, (n \div 65536) % 256, (n \div 16777216) % 256 >>

\* the int32 held by the four bytes of b that follow position p
S32(b, p) ==
  b[p + 1] + 256 * b[p + 2] + 65536 * b[p + 3]
    + 16777216 * (IF b[p + 4] >= 128 THEN b[p + 4] - 256 ELSE b[p + 4])

\* an int64 as its two 32-bit halves
I64(lo, hi) == [lo |-> lo, hi |-> hi]

LE64(v) == LE32(v.lo) \o LE32(v.hi)

S64(b, p) == I64(S32(b, p), S32(b, p + 4))

\* body applied to the value of v (v is evaluated once, then bound)
Let(v, body(_)) == CHOOSE out \in { body(x) : x \in {v} } : TRUE

\* the bytes of b after the first p
Drop(b, p) == SubSeq(b, p + 1, Len(b))

\* the number of bytes from position p up to and including the first zero
\* byte at or after the k-th byte behind p, or 0 when there is none
ZeroAt(b, p, k) ==
  LET zeros == { j \in (p + k)..Len(b) : b[j] = 0 }
  IN  IF zeros = { } THEN 0
      ELSE (CHOOSE j \in zeros : \A x \in zeros : j <= x) - p

(***************************************************************************)
(* bson.D values and the BSON codec (gopkg.in/mgo.v2/bson), as used by     *)
(* readDoc and writeBson                                                   *)
(***************************************************************************)
NilDoc == [isNil |-> TRUE, elems |-> << >>]

Doc(es) == [isNil |-> FALSE, elems |-> es]

DocElem(name, value) == [Name |-> name, Value |-> value]

\* an interface{} value: the Go type it holds and the value
Value(type, v) == [type |-> type, v |-> v]

\* the interface{} value of an element: an int32 (held in a Go int)
Int32Value(n) == [type |-> "int32", v |-> n]

\* the nil interface{} value
NilValue == [type |-> "nil", v |-> 0]

\* a bson.M holding the elements es: a name that occurs twice keeps the
\* value set last (SetMapIndex)
MapOf(es) ==
  [ n \in { es[k].Name : k \in 1..Len(es) } |->
      es[CHOOSE k \in 1..Len(es) :
           es[k].Name = n /\ \A j \in (k + 1)..Len(es) : es[j].Name # n].Value ]

\* the orders in which the elements of S can come
RECURSIVE Perms(_)
Perms(S) ==
  IF S = { } THEN { << >> }
  ELSE UNION { { << x >> \o p : p \in Perms(S \ {x}) } : x \in S }

\* the elements of the map m in the orders v.MapKeys() can give its names
MapElems(m) ==
  { [ i \in 1..Len(p) |-> DocElem(p[i], m[p[i]]) ] : p \in Perms(DOMAIN m) }

\* a value bson.Marshal has no encoding for (make(chan int))
ChanValue == [type |-> "chan", v |-> 0]

\* the zero value of a slice field ([]bson.D, []int64)
NilSlice == [isNil |-> TRUE, elems |-> << >>]

Slice(es) == [isNil |-> FALSE, elems |-> es]

\* the BSON element kind of an int32
KindInt32 == 16

ErrCorrupted == "Document is corrupted"

ErrCantMarshal == "Can't marshal chan int in a BSON document"

HexDigits ==
  << "0", "1", "2", "3", "4", "5", "6", "7", "8", "9", "A", "B", "C", "D", "E", "F" >>

\* fmt.Sprintf("Unknown element kind (0x%02X)", kind)
ErrUnknownKind(kind) ==
  "Unknown element kind (0x" \o HexDigits[(kind \div 16) + 1]
    \o HexDigits[(kind % 16) + 1] \o ")"

\* fmt.Sprintf("%d", n) for n >= 0
RECURSIVE Sprintd(_)
Sprintd(n) ==
  IF n < 10 THEN HexDigits[n + 1]
  ELSE Sprintd(n \div 10) \o HexDigits[(n % 10) + 1]

\* fmt.Sprintf("encoded boolean must be 1 or 0, found %d", b)
ErrBoolean(b) == "encoded boolean must be 1 or 0, found " \o Sprintd(b)

\* strconv.Itoa(n) for n >= 0, as bytes
RECURSIVE Itoa(_)
Itoa(n) ==
  IF n < 10 THEN << 48 + n >>
  ELSE Itoa(n \div 10) \o << 48 + (n % 10) >>

\* the BSON element kind bson.Marshal gives a value
KindOfValue(val) ==
  CASE val.type = "float64" -> 1
    [] val.type = "string" -> 2
    [] val.type \in {"D", "M"} -> 3
    [] val.type = "slice" -> 4
    [] val.type \in {"bytes", "Binary"} -> 5
    [] val.type = "Undefined" -> 6
    [] val.type = "ObjectId" -> 7
    [] val.type = "bool" -> 8
    [] val.type = "Time" -> 9
    [] val.type = "nil" -> 10
    [] val.type = "RegEx" -> 11
    [] val.type = "DBPointer" -> 12
    [] val.type = "JavaScript" -> IF val.v.Scope.type = "nil" THEN 13 ELSE 15
    [] val.type = "Symbol" -> 14
    [] val.type = "int32" -> KindInt32
    [] val.type = "MongoTimestamp" -> 17
    [] val.type = "int64" -> 18
    [] val.type = "Decimal128" -> 19
    [] val.type = "MaxKey" -> 127
    [] val.type = "MinKey" -> 255

\* addStr: int32 length with the terminator, the bytes, a zero byte
StrBytes(b) == LE32(Len(b) + 1) \o b \o << 0 >>

\* addBinary: the obsolete subtype 2 carries its length twice
BinaryBytes(subtype, b) ==
  IF subtype = 2
    THEN LE32(Len(b) + 4) \o << subtype >> \o LE32(Len(b)) \o b
  ELSE LE32(Len(b)) \o << subtype >> \o b

\* bson.Marshal, as the set of the byte sequences it can give: of the
\* elements of a document (addElem per element), of a value after its kind
\* and name, of a document (addDoc: int32 size, the elements, a zero byte)
\* and of a map, whose names are written in any order
RECURSIVE MarshalElems(_), MarshalValue(_), MarshalDoc(_), MarshalMap(_)
MarshalElems(es) ==
  IF es = << >> THEN { << >> }
  ELSE { << KindOfValue(es[1].Value) >> \o es[1].Name \o << 0 >> \o v \o rest :
           v \in MarshalValue(es[1].Value), rest \in MarshalElems(Tail(es)) }

MarshalValue(val) ==
  CASE val.type \in {"float64", "ObjectId", "Decimal128"} -> { val.v }
    [] val.type \in {"string", "Symbol"} -> { StrBytes(val.v) }
    [] val.type = "D" -> MarshalDoc(val.v.elems)
    [] val.type = "M" -> MarshalMap(val.v)
    [] val.type = "slice" ->
         MarshalDoc([i \in 1..Len(val.v) |-> DocElem(Itoa(i - 1), val.v[i])])
    [] val.type = "bytes" -> { BinaryBytes(0, val.v) }
    [] val.type = "Binary" -> { BinaryBytes(val.v.Kind, val.v.Data) }
    [] val.type \in {"Undefined", "nil", "MaxKey", "MinKey"} -> { << >> }
    [] val.type = "bool" -> { IF val.v THEN << 1 >> ELSE << 0 >> }
    [] val.type \in {"Time", "MongoTimestamp", "int64"} -> { LE64(val.v) }
    [] val.type = "RegEx" ->
         { val.v.Pattern \o << 0 >> \o val.v.Options \o << 0 >> }
    [] val.type = "DBPointer" -> { StrBytes(val.v.Namespace) \o val.v.Id }
    [] val.type = "JavaScript" ->
         IF val.v.Scope.type = "nil" THEN { StrBytes(val.v.Code) }
         ELSE { LE32(Len(StrBytes(val.v.Code)) + Len(scope) + 4)
                  \o StrBytes(val.v.Code) \o scope :
                  scope \in MarshalMap(val.v.Scope.v) }
    [] val.type = "int32" -> { LE32(val.v) }

MarshalDoc(es) ==
  { LE32(Len(body) + 5) \o body \o << 0 >> : body \in MarshalElems(es) }

MarshalMap(m) == UNION { MarshalDoc(es) : es \in MapElems(m) }

\* bson.Marshal(d) for the bson.D d: the byte sequences it can give
Marshal(d) == MarshalDoc(d.elems)

\* whether addElem has an encoding for the value, and for what it holds
RECURSIVE Marshalable(_)
Marshalable(val) ==
  CASE val.type = "chan" -> FALSE
    [] val.type = "D" ->
         \A i \in 1..Len(val.v.elems) : Marshalable(val.v.elems[i].Value)
    [] val.type = "slice" -> \A i \in 1..Len(val.v) : Marshalable(val.v[i])
    [] val.type = "M" -> \A n \in DOMAIN val.v : Marshalable(val.v[n])
    [] val.type = "JavaScript" ->
         val.v.Scope.type = "nil"
           \/ \A n \in DOMAIN val.v.Scope.v : Marshalable(val.v.Scope.v[n])
    [] OTHER -> TRUE

\* the error of bson.Marshal(d): every value must have a BSON kind
MarshalError(d) ==
  IF \A i \in 1..Len(d.elems) : Marshalable(d.elems[i].Value)
    THEN "nil" ELSE ErrCantMarshal

\* what a step of bson's decoder gives: the message of its panic or "nil",
\* the value read, and d.i after it (the bytes of in read so far)
E(err, val, i) == [err |-> err, val |-> val, i |-> i]

\* corrupted()
Corrupted == E(ErrCorrupted, 0, 0)

\* a value of n bytes at d.i, kept as its bytes (readBytes fails when they
\* run past the input)
FixedBytes(in, i, n, type) ==
  IF i + n > Len(in) THEN Corrupted
  ELSE E("nil", Value(type, SubSeq(in, i + 1, i + n)), i + n)

\* readInt64 at d.i, for the Go type given
FixedInt64(in, i, type) ==
  IF i + 8 > Len(in) THEN Corrupted
  ELSE E("nil", Value(type, S64(in, i)), i + 8)

\* readStr: int32 length l, l - 1 bytes, a zero byte
readStr(in, i) ==
  IF i + 4 > Len(in) THEN Corrupted
  ELSE LET l == S32(in, i)
       IN  IF l < 1 \/ l > Len(in) - (i + 4) THEN Corrupted
           ELSE IF in[i + 4 + l] # 0 THEN Corrupted
           ELSE E("nil", SubSeq(in, i + 5, i + 3 + l), i + 4 + l)

\* readCStr: the bytes up to the next zero byte of the input
readCStr(in, i) ==
  LET z == ZeroAt(in, i, 1)
  IN  IF z = 0 THEN Corrupted
      ELSE E("nil", SubSeq(in, i + 1, i + z - 1), i + z)

\* readBinary, and what readElemTo makes of it: subtypes 0 and 2 give a
\* []byte (subtype 2 without its inner length), any other a bson.Binary
readBinary(in, i) ==
  IF i + 5 > Len(in) THEN Corrupted
  ELSE LET l == S32(in, i)
           kind == in[i + 5]
           data == SubSeq(in, i + 6, i + 5 + l)
       IN  IF l < 0 \/ l > Len(in) - (i + 5) THEN Corrupted
           ELSE IF kind = 2
             THEN E("nil", Value("bytes", IF l >= 4 THEN Drop(data, 4) ELSE data),
                    i + 5 + l)
           ELSE IF kind = 0 THEN E("nil", Value("bytes", data), i + 5 + l)
           ELSE E("nil", Value("Binary", [Kind |-> kind, Data |-> data]), i + 5 + l)

\* The decoder reads documents into the type d.docType names: dt is "D"
\* inside a bson.D and "M" inside a bson.M.
\* readDocWith (and the loop of readDocTo for a map, which is the same) at
\* d.i = i: the size and the final zero byte are checked, then the
\* elements are read (the value is the sequence of DocElem); UnmarshalElems
\* is its loop over in[i+1..end], which stops at a zero byte and fails on an
\* element running into end.  readSliceDoc reads an array: SliceElems, its
\* loop, steps over a name up to its zero byte, looking at end before it
\* steps over the zero and not after.  docValue is the value a document
\* read in dt gives, readElemTo reads the value of one element of the kind
\* given into an interface{}
RECURSIVE readDocWith(_, _, _), UnmarshalElems(_, _, _, _, _),
          readSliceDoc(_, _, _), SliceElems(_, _, _, _, _),
          readElemTo(_, _, _, _)
readDocWith(in, i, dt) ==
  IF i + 4 > Len(in) THEN Corrupted
  ELSE LET size == S32(in, i)
       IN  IF size <= 4 \/ size > Len(in) - i THEN Corrupted
           ELSE IF in[i + size] # 0 THEN Corrupted
           ELSE UnmarshalElems(in, i + 4, i + size, << >>, dt)

UnmarshalElems(in, i, end, acc, dt) ==
  IF in[i + 1] = 0
    THEN IF i + 1 = end THEN E("nil", acc, i + 1) ELSE Corrupted
  ELSE Let(readCStr(in, i + 1), LAMBDA name :
         IF name.err # "nil" \/ name.i >= end THEN Corrupted
         ELSE Let(readElemTo(in, name.i, in[i + 1], dt), LAMBDA e :
                IF e.err # "nil" THEN e
                ELSE IF e.i >= end THEN Corrupted
                ELSE Let(Append(acc, DocElem(name.val, e.val)), LAMBDA es :
                       UnmarshalElems(in, e.i, end, es, dt))))

readSliceDoc(in, i, dt) ==
  IF i + 4 > Len(in) THEN Corrupted
  ELSE LET size == S32(in, i)
       IN  IF size <= 4 \/ size > Len(in) - i THEN Corrupted
           ELSE IF in[i + size] # 0 THEN Corrupted
           ELSE SliceElems(in, i + 4, i + size, << >>, dt)

SliceElems(in, i, end, acc, dt) ==
  IF in[i + 1] = 0
    THEN IF i + 1 = end THEN E("nil", Value("slice", acc), i + 1) ELSE Corrupted
  ELSE Let(ZeroAt(in, i + 1, 1), LAMBDA z :
         IF z = 0 \/ i + z >= end THEN Corrupted
         ELSE Let(readElemTo(in, i + 1 + z, in[i + 1], dt), LAMBDA e :
                IF e.err # "nil" THEN e
                ELSE IF e.i >= end THEN Corrupted
                ELSE Let(Append(acc, e.val), LAMBDA vs :
                       SliceElems(in, e.i, end, vs, dt))))

\* the value of a document whose elements are es, read in dt
DocValue(es, dt) == IF dt = "M" THEN Value("M", MapOf(es)) ELSE Value("D", Doc(es))

readElemTo(in, i, kind, dt) ==
  CASE kind = 1 -> FixedBytes(in, i, 8, "float64")
    [] kind = 2 ->
         LET s == readStr(in, i)
         IN  IF s.err # "nil" THEN s ELSE E("nil", Value("string", s.val), s.i)
    [] kind = 3 ->
         Let(readDocWith(in, i, dt), LAMBDA d :
           IF d.err # "nil" THEN d ELSE E("nil", DocValue(d.val, dt), d.i))
    [] kind = 4 -> readSliceDoc(in, i, dt)
    [] kind = 5 -> readBinary(in, i)
    [] kind = 6 -> E("nil", Value("Undefined", 0), i)
    [] kind = 7 -> FixedBytes(in, i, 12, "ObjectId")
    [] kind = 8 ->
         IF i + 1 > Len(in) THEN Corrupted
         ELSE IF in[i + 1] > 1 THEN E(ErrBoolean(in[i + 1]), 0, 0)
         ELSE E("nil", Value("bool", in[i + 1] = 1), i + 1)
    [] kind = 9 -> FixedInt64(in, i, "Time")
    [] kind = 10 -> E("nil", NilValue, i)
    [] kind = 11 ->
         LET p == readCStr(in, i)
             o == readCStr(in, p.i)
         IN  IF p.err # "nil" THEN p
             ELSE IF o.err # "nil" THEN o
             ELSE E("nil", Value("RegEx", [Pattern |-> p.val, Options |-> o.val]), o.i)
    [] kind = 12 ->
         LET s == readStr(in, i)
         IN  IF s.err # "nil" THEN s
             ELSE IF s.i + 12 > Len(in) THEN Corrupted
             ELSE E("nil", Value("DBPointer",
                                 [Namespace |-> s.val,
                                  Id |-> SubSeq(in, s.i + 1, s.i + 12)]), s.i + 12)
    [] kind = 13 ->
         LET s == readStr(in, i)
         IN  IF s.err # "nil" THEN s
             ELSE E("nil", Value("JavaScript", [Code |-> s.val, Scope |-> NilValue]),
                    s.i)
    [] kind = 14 ->
         LET s == readStr(in, i)
         IN  IF s.err # "nil" THEN s ELSE E("nil", Value("Symbol", s.val), s.i)
    [] kind = 15 ->
         Let(readStr(in, i + 4), LAMBDA s :
           IF s.err # "nil" THEN s
           ELSE Let(readDocWith(in, s.i, "M"), LAMBDA d :
                  IF d.err # "nil" THEN d
                  ELSE E("nil", Value("JavaScript",
                                      [Code |-> s.val, Scope |-> DocValue(d.val, "M")]),
                         d.i)))
    [] kind = KindInt32 ->
         IF i + 4 > Len(in) THEN Corrupted
         ELSE E("nil", Int32Value(S32(in, i)), i + 4)
    [] kind = 17 -> FixedInt64(in, i, "MongoTimestamp")
    [] kind = 18 -> FixedInt64(in, i, "int64")
    [] kind = 19 -> FixedBytes(in, i, 16, "Decimal128")
    [] kind = 127 -> E("nil", Value("MaxKey", 0), i)
    [] kind = 255 -> E("nil", Value("MinKey", 0), i)
    [] OTHER -> E(ErrUnknownKind(kind), 0, 0)

\* bson.Unmarshal(bDoc, &out) for out a bson.D: the document, or the error
\* handleErr makes of the decoder's panic
Unmarshal(in) ==
  LET r == readDocWith(in, 0, "D")
  IN  IF r.err = "nil" THEN [ok |-> TRUE, err |-> "nil", doc |-> Doc(r.val)]
      ELSE [ok |-> FALSE, err |-> r.err, doc |-> NilDoc]

(***************************************************************************)
(* Opcodes, the header and the message variants                            *)
(***************************************************************************)
OP_REPLY == 1
OP_MSG == 1000
OP_UPDATE == 2001
OP_INSERT == 2002
RESERVED == 2003
OP_QUERY == 2004
OP_GET_MORE == 2005
OP_DELETE == 2006
OP_KILL_CURSORS == 2007

HEADER_SIZE == 16

\* the opcodes newReq has a case for
KnownOps ==
  { OP_UPDATE, OP_QUERY, OP_DELETE, OP_GET_MORE, OP_INSERT, OP_KILL_CURSORS,
    OP_MSG, OP_REPLY }

MsgHeader(len, req, resp, op) ==
  [MessageLength |-> len, RequestID |-> req, ResponseTo |-> resp, Opcode |-> op]

\* readMsgHeader on at least 16 bytes
ParseHeader(s) == MsgHeader(S32(s, 0), S32(s, 4), S32(s, 8), S32(s, 12))

\* binary.Write of a MsgHeader
HeaderBytes(h) ==
  LE32(h.MessageLength) \o LE32(h.RequestID) \o LE32(h.ResponseTo) \o LE32(h.Opcode)

F(name, kind) == [name |-> name, kind |-> kind]

\* the struct fields of each variant in declaration order, as reflection
\* walks them: hdr = *MsgHeader, i32, i64, str, doc = bson.D,
\* docs = []bson.D, i64s = []int64
Fields(op) ==
  CASE op = OP_QUERY ->
         << F("MsgHeader", "hdr"), F("Flags", "i32"), F("FullCollectionName", "str"),
            F("NumberToSkip", "i32"), F("NumberToReturn", "i32"),
            F("Query", "doc"), F("ReturnFieldsSelector", "doc") >>
    [] op = OP_UPDATE ->
         << F("MsgHeader", "hdr"), F("ZERO", "i32"), F("FullCollectionName", "str"),
            F("Flags", "i32"), F("Selector", "doc"), F("Update", "doc") >>
    [] op = OP_INSERT ->
         << F("MsgHeader", "hdr"), F("Flags", "i32"), F("FullCollectionName", "str"),
            F("Documents", "docs") >>
    [] op = OP_GET_MORE ->
         << F("MsgHeader", "hdr"), F("ZERO", "i32"), F("FullCollectionName", "str"),
            F("NumberToReturn", "i32"), F("CursorID", "i64") >>
    [] op = OP_DELETE ->
         << F("MsgHeader", "hdr"), F("ZERO", "i32"), F("FullCollectionName", "str"),
            F("Flags", "i32"), F("Selector", "doc") >>
    [] op = OP_KILL_CURSORS ->
         << F("MsgHeader", "hdr"), F("ZERO", "i32"), F("NumberOfCursorIDs", "i32"),
            F("CursorIDs", "i64s") >>
    [] op = OP_MSG ->
         << F("MsgHeader", "hdr"), F("Message", "str") >>
    [] op = OP_REPLY ->
         << F("MsgHeader", "hdr"), F("ResponseFlags", "i32"), F("CursorID", "i64"),
            F("StartingFrom", "i32"), F("NumberReturned", "i32"),
            F("Documents", "docs") >>

FieldNames(op) == { Fields(op)[i].name : i \in 1..Len(Fields(op)) }

NumField(op) == Len(Fields(op))

KindOf(op, name) ==
  Fields(op)[CHOOSE i \in 1..NumField(op) : Fields(op)[i].name = name].kind

\* the zero value of a field of the given kind
ZeroValue(kind) ==
  CASE kind = "i32" -> 0
    [] kind = "i64" -> I64(0, 0)
    [] kind = "str" -> << >>
    [] kind = "doc" -> NilDoc
    [] kind = "docs" -> NilSlice
    [] kind = "i64s" -> NilSlice
    [] kind = "hdr" -> MsgHeader(0, 0, 0, 0)

\* newReq(h) for a known opcode: the variant of h.Opcode holding h, every
\* other field zero
newReq(h) ==
  [ n \in FieldNames(h.Opcode) |->
      IF n = "MsgHeader" THEN h ELSE ZeroValue(KindOf(h.Opcode, n)) ]

(***************************************************************************)
(* Reading.  A stream is read as [s, marks, closed]: s the bytes the peer  *)
(* has made available by the time the call ends, closed whether            *)
(* end-of-stream follows them, marks the lengths s had each time the call  *)
(* had taken all there was and waited for more (none for a call that never *)
(* waits).  pos counts the bytes of s the decoder has been given, got the  *)
(* bytes taken from the stream: the header is read from the stream itself, *)
(* the body through a bufio.Reader made for the call, which takes more     *)
(* than the decoder asked for and is dropped with what it holds.  A read   *)
(* that needs bytes beyond s ends "block" on an open stream (the goroutine *)
(* waits) and with io.EOF or io.ErrUnexpectedEOF on a closed one.          *)
(***************************************************************************)
ErrorWrongLen == "Wrong data length"
ErrorOpcodeUnknown == "OP Code unknown"
EOF == "EOF"
ErrUnexpectedEOF == "unexpected EOF"

In(s, marks, closed) == [s |-> s, marks |-> marks, closed |-> closed]

Min(a, b) == IF a <= b THEN a ELSE b

\* the length of the stream as a read finds it after got bytes were taken:
\* up to the next point where the call had to wait, else all of s
Lim(in, got) ==
  LET later == { k \in 1..Len(in.marks) : in.marks[k] > got /\ in.marks[k] < Len(in.s) }
  IN  IF later = {} THEN Len(in.s)
      ELSE in.marks[CHOOSE k \in later : \A j \in later : k <= j]

\* the size of bufio's buffer: one fill takes what the stream has, up to the
\* room left in the buffer
defaultBufSize == 4096

R(st, val, n, got) == [st |-> st, val |-> val, n |-> n, got |-> got]

\* what io.ReadFull reports when fewer bytes than asked for can be had
Short(avail, closed) ==
  IF ~closed THEN "block" ELSE IF avail = 0 THEN EOF ELSE ErrUnexpectedEOF

\* io.ReadFull(bufferReader, p) with rem bytes of p still to fill and done
\* filled: bufio's Read copies from its buffer when it holds bytes; on an
\* empty buffer it reads straight into p when p is at least a buffer long,
\* else fills the buffer with one read of the stream
RECURSIVE ReadFull(_, _, _, _, _)
ReadFull(in, pos, got, rem, done) ==
  IF rem = 0 THEN R("ok", 0, done, got)
  ELSE IF got > pos
    THEN Let(Min(rem, got - pos), LAMBDA c :
           ReadFull(in, pos + c, got, rem - c, done + c))
  ELSE IF Lim(in, got) = got THEN R(Short(done, in.closed), 0, done, got)
  ELSE IF rem >= defaultBufSize
    THEN Let(Min(rem, Lim(in, got) - got), LAMBDA k :
           ReadFull(in, pos + k, got + k, rem - k, done + k))
  ELSE Let(Min(defaultBufSize, Lim(in, got) - got), LAMBDA k :
         ReadFull(in, pos, got + k, rem, done))

\* bufferReader.Peek(4): fills until the buffer holds four bytes; io.EOF
\* when the stream ends before that
RECURSIVE Peek(_, _, _)
Peek(in, pos, got) ==
  IF got - pos >= 4 THEN R("ok", 0, 0, got)
  ELSE IF Lim(in, got) = got THEN R(IF in.closed THEN EOF ELSE "block", 0, 0, got)
  ELSE Let(Min(defaultBufSize - (got - pos), Lim(in, got) - got), LAMBDA k :
         Peek(in, pos, got + k))

\* the fills of bufferReader.ReadString(0) looking for the zero byte that is
\* z bytes after pos (z = 0: there is none); from is where the buffer
\* starts, a full buffer without the byte is handed out whole
RECURSIVE StringFills(_, _, _, _, _)
StringFills(in, pos, z, from, got) ==
  IF z > 0 /\ pos + z <= got THEN R("ok", 0, 0, got)
  ELSE IF Lim(in, got) = got THEN R(IF in.closed THEN EOF ELSE "block", 0, 0, got)
  ELSE IF got - from >= defaultBufSize THEN StringFills(in, pos, z, got, got)
  ELSE Let(Min(defaultBufSize - (got - from), Lim(in, got) - got), LAMBDA k :
         StringFills(in, pos, z, from, got + k))

\* readInt32s(r, 1): binary.Read of four bytes
readInt32s(in, pos, got) ==
  Let(ReadFull(in, pos, got, 4, 0), LAMBDA b :
    IF b.st = "ok" THEN R("ok", S32(in.s, pos), 4, b.got)
    ELSE R(b.st, 0, 0, b.got))

\* readInt64s(r, 1): binary.Read of eight bytes
readInt64s(in, pos, got) ==
  Let(ReadFull(in, pos, got, 8, 0), LAMBDA b :
    IF b.st = "ok" THEN R("ok", S64(in.s, pos), 8, b.got)
    ELSE R(b.st, I64(0, 0), 0, b.got))

\* bufferReader.ReadString(0): the bytes up to and including the first zero
\* byte, io.EOF when the stream ends before one; the field gets the bytes
\* without the terminator, the counter the length with it
ReadString(in, pos, got) ==
  Let(ZeroAt(in.s, pos, 1), LAMBDA z :
    Let(StringFills(in, pos, z, pos, got), LAMBDA b :
      IF b.st = "ok" THEN R("ok", SubSeq(in.s, pos + 1, pos + z - 1), z, b.got)
      ELSE R(b.st, << >>, 0, b.got)))

\* readDoc: Peek(4) for the size n, make([]byte, n) (a negative n panics),
\* io.ReadFull of n bytes, bson.Unmarshal; n is what the caller accounts
readDoc(in, pos, got) ==
  Let(Peek(in, pos, got), LAMBDA p :
    IF p.st # "ok" THEN R(p.st, NilDoc, 0, p.got)
    ELSE IF S32(in.s, pos) < 0 THEN R("panic", NilDoc, 0, p.got)
    ELSE Let(ReadFull(in, pos, p.got, S32(in.s, pos), 0), LAMBDA b :
           IF b.st # "ok" THEN R(b.st, NilDoc, 0, b.got)
           ELSE Let(Unmarshal(SubSeq(in.s, pos + 1, pos + S32(in.s, pos))), LAMBDA u :
                  IF u.ok THEN R("ok", u.doc, S32(in.s, pos), b.got)
                  ELSE R(u.err, NilDoc, 0, b.got))))

\* the []bson.D loop of ReadRequest: read a document, append, account, and
\* leave only when the counter equals MessageLength (n is the decoder's
\* position when the loop ends)
RECURSIVE ReadDocs(_, _, _, _, _, _)
ReadDocs(in, len, pos, got, bytesRead, data) ==
  Let(readDoc(in, pos, got), LAMBDA d :
    IF d.st # "ok" THEN R(d.st, NilSlice, pos, d.got)
    ELSE IF bytesRead + d.n = len
      THEN R("ok", Slice(Append(data, d.val)), pos + d.n, d.got)
    ELSE Let(<< pos + d.n, bytesRead + d.n, Append(data, d.val) >>, LAMBDA n :
           ReadDocs(in, len, n[1], d.got, n[2], n[3])))

\* the []int64 loop without its loop: one id is read
ReadCursorIDsOnce(in, len, pos, got, bytesRead, data) ==
  Let(readInt64s(in, pos, got), LAMBDA d :
    IF d.st # "ok" THEN R(d.st, NilSlice, pos, d.got)
    ELSE R("ok", Slice(Append(data, d.val)), pos + 8, d.got))

\* the []int64 loop of ReadRequest
RECURSIVE ReadCursorIDs(_, _, _, _, _, _)
ReadCursorIDs(in, len, pos, got, bytesRead, data) ==
  Let(readInt64s(in, pos, got), LAMBDA d :
    IF d.st # "ok" THEN R(d.st, NilSlice, pos, d.got)
    ELSE IF bytesRead + 8 = len
      THEN R("ok", Slice(Append(data, d.val)), pos + 8, d.got)
    ELSE Let(<< pos + 8, bytesRead + 8, Append(data, d.val) >>, LAMBDA n :
           ReadCursorIDs(in, len, n[1], d.got, n[2], n[3])))

\* one arm of the type switch of ReadRequest: the field's value, the bytes
\* it took from the decoder's input (which is also what bytesRead grows by)
\* and the bytes gone from the stream after it; when a slice loop fails, n
\* is what the elements before the failure took
ReadField(kind, in, len, pos, got, bytesRead) ==
  CASE kind = "doc" -> readDoc(in, pos, got)
    [] kind = "docs" ->
         LET r == ReadDocs(in, len, pos, got, bytesRead, << >>)
         IN  R(r.st, r.val, r.n - pos, r.got)
    [] kind = "i64s" ->
         LET r == ReadCursorIDs(in, len, pos, got, bytesRead, << >>)
         IN  R(r.st, r.val, r.n - pos, r.got)
    [] kind = "str" -> ReadString(in, pos, got)
    [] kind = "i32" -> readInt32s(in, pos, got)
    [] kind = "i64" -> readInt64s(in, pos, got)

\* what a call of ReadRequest gives: st is "ok" (req, nil), "err" (nil, err),
\* "panic" (the goroutine panics) or "block" (it waits for more bytes);
\* bytesRead is the running counter, used the bytes decoded (header
\* included), reads the body reads made, consumed the bytes gone from the
\* stream when the call ends or waits
Result(st, err, req, pos, bytesRead, reads, got) ==
  [st |-> st, err |-> err, req |-> req, bytesRead |-> bytesRead, used |-> pos,
   reads |-> reads, consumed |-> got]

NoReq == << >>

\* the locals of ReadRequest while it walks the fields
Locals(req, pos, bytesRead, reads, got) ==
  [req |-> req, pos |-> pos, bytesRead |-> bytesRead, reads |-> reads, got |-> got]

\* LengthCheck without its second arm: a counter beyond the length goes on
LengthCheckNoOvershoot(bytesRead, len) ==
  IF bytesRead = len THEN "break" ELSE "read"

\* the test at the head of each round of the field loop, before the field
\* is looked at: break, return ErrorWrongLen, or read the field
LengthCheck(bytesRead, len) ==
  IF bytesRead = len THEN "break"
  ELSE IF bytesRead > len THEN "wrong"
  ELSE "read"

\* the field loop of ReadRequest from field i on
RECURSIVE ReadFields(_, _, _)
ReadFields(in, i, v) ==
  LET h == v.req.MsgHeader
      f == Fields(h.Opcode)[i]
  IN  IF i > NumField(h.Opcode)
        THEN Result("ok", "nil", v.req, v.pos, v.bytesRead, v.reads, v.got)
      ELSE IF LengthCheck(v.bytesRead, h.MessageLength) = "break"
        THEN Result("ok", "nil", v.req, v.pos, v.bytesRead, v.reads, v.got)
      ELSE IF LengthCheck(v.bytesRead, h.MessageLength) = "wrong"
        THEN Result("err", ErrorWrongLen, NoReq, v.pos, v.bytesRead, v.reads, v.got)
      ELSE IF f.kind = "hdr"
        THEN ReadFields(in, i + 1, v)
      ELSE Let(ReadField(f.kind, in, h.MessageLength, v.pos, v.got, v.bytesRead),
             LAMBDA r :
               IF r.st = "ok"
                 THEN Let(Locals([v.req EXCEPT ![f.name] = r.val], v.pos + r.n,
                                 v.bytesRead + r.n, v.reads + 1, r.got),
                          LAMBDA w : ReadFields(in, i + 1, w))
               ELSE IF r.st \in {"block", "panic"}
                 THEN Result(r.st, "nil", NoReq, v.pos + r.n, v.bytesRead + r.n,
                             v.reads + 1, r.got)
               ELSE Result("err", r.st, NoReq, v.pos + r.n, v.bytesRead + r.n,
                           v.reads + 1, r.got))

\* ReadRequest(r) on the stream in: readMsgHeader takes the sixteen header
\* bytes from the stream itself, newReq picks the variant, the fields are
\* read through bufferReader
ReadRequestFrom(stream) ==
  Let(stream, LAMBDA in :
    IF Len(in.s) < HEADER_SIZE
      THEN IF in.closed
             THEN Result("err", Short(Len(in.s), TRUE), NoReq, Len(in.s), 0, 0, Len(in.s))
           ELSE Result("block", "nil", NoReq, Len(in.s), 0, 0, Len(in.s))
    ELSE Let(ParseHeader(in.s), LAMBDA h :
           IF h.Opcode \notin KnownOps
             THEN Result("err", ErrorOpcodeUnknown, NoReq, HEADER_SIZE, 0, 0, HEADER_SIZE)
           ELSE Let(Locals(newReq(h), HEADER_SIZE, HEADER_SIZE, 0, HEADER_SIZE),
                    LAMBDA v : ReadFields(in, 1, v))))

\* ReadRequest(r) by a call that finds all of s there and never waits
ReadRequest(s, closed) == ReadRequestFrom(In(s, << >>, closed))

(***************************************************************************)
(* Writing                                                                 *)
(***************************************************************************)
\* the error of a write to a connection its peer has reset
ErrReset == "write tcp: connection reset by peer"

\* WriteRequest so far: bytes are the bytes bufWriter has taken, of which the
\* last n are in its buffer and the others were written to w; cuts are the
\* lengths of bytes written to w after each write to w that succeeded, berr
\* is bufWriter's error (b.err, set by a write to w that failed: bufWriter
\* writes no more after it), err the error variable e.  The writes to w are
\* numbered from 1 and failAt is the number of the one that fails (0 when
\* none does)
NewWriter ==
  [bytes |-> << >>, n |-> 0, cuts |-> << >>, berr |-> "nil", err |-> "nil"]

\* b.Available()
Available(w) == defaultBufSize - w.n

\* copy(b.buf[b.n:], p) for a p that fits
Put(w, p) == [w EXCEPT !.bytes = @ \o p, !.n = @ + Len(p)]

\* w.Write of bufWriter: the write to the connection that Flush or a large
\* Write makes, leaving all of bytes written
ConnWrite(w, failAt) ==
  IF Len(w.cuts) + 1 = failAt THEN [w EXCEPT !.berr = ErrReset]
  ELSE [w EXCEPT !.cuts = Append(@, Len(w.bytes)), !.n = 0]

\* bufWriter.Flush()
Flush(w, failAt) ==
  IF w.berr # "nil" \/ w.n = 0 THEN w ELSE ConnWrite(w, failAt)

\* bufWriter.Write(p), err being what it returns: while p does not fit, an
\* empty buffer makes it write p to w directly, another is filled and
\* flushed
RECURSIVE BufWrite(_, _, _)
BufWrite(w, p, failAt) ==
  IF w.berr # "nil" THEN [w EXCEPT !.err = w.berr]
  ELSE IF Len(p) > Available(w)
    THEN IF w.n = 0
           THEN Let(ConnWrite([w EXCEPT !.bytes = @ \o p], failAt), LAMBDA x :
                  IF x.berr # "nil" THEN [w EXCEPT !.berr = x.berr, !.err = x.berr]
                  ELSE [x EXCEPT !.err = "nil"])
         ELSE Let(Flush(Put(w, SubSeq(p, 1, Available(w))), failAt), LAMBDA x :
                BufWrite(x, Drop(p, Available(w)), failAt))
  ELSE [Put(w, p) EXCEPT !.err = "nil"]

\* bufWriter.WriteString(s), err being what it returns: while s does not
\* fit, the buffer is filled and flushed
RECURSIVE WriteString(_, _, _)
WriteString(w, s, failAt) ==
  IF w.berr # "nil" THEN [w EXCEPT !.err = w.berr]
  ELSE IF Len(s) > Available(w)
    THEN Let(Flush(Put(w, SubSeq(s, 1, Available(w))), failAt), LAMBDA x :
           WriteString(x, Drop(s, Available(w)), failAt))
  ELSE [Put(w, s) EXCEPT !.err = "nil"]

\* bufWriter.WriteByte(c), whose result WriteRequest does not look at
WriteByte(w, c, failAt) ==
  IF w.berr # "nil" THEN w
  ELSE Let(IF Available(w) <= 0 THEN Flush(w, failAt) ELSE w, LAMBDA x :
         IF x.berr # "nil" THEN x ELSE Put(x, << c >>))

\* writeBson: a document of no elements is not written at all (and gives
\* nil), one that cannot be marshalled gives the error and no bytes
writeBson(data, w, failAt) ==
  IF Len(data.elems) > 0
    THEN IF MarshalError(data) = "nil"
           THEN { BufWrite(w, b, failAt) : b \in Marshal(data) }
         ELSE { [w EXCEPT !.err = MarshalError(data)] }
  ELSE { [w EXCEPT !.err = "nil"] }

\* the []bson.D loop of WriteRequest: e is assigned per document, the loop
\* is left at the first error; e stays what it was when there is none
RECURSIVE WriteDocs(_, _, _)
WriteDocs(data, w, failAt) ==
  IF data = << >> THEN { w }
  ELSE UNION { IF x.err # "nil" THEN { x } ELSE WriteDocs(Tail(data), x, failAt) :
                 x \in writeBson(data[1], w, failAt) }

\* the []int64 loop of WriteRequest
RECURSIVE WriteInt64s(_, _, _)
WriteInt64s(data, w, failAt) ==
  IF data = << >> THEN w
  ELSE Let(BufWrite(w, LE64(data[1]), failAt), LAMBDA x :
         IF x.err # "nil" THEN x ELSE WriteInt64s(Tail(data), x, failAt))

\* one arm of the type switch of WriteRequest, w being bufWriter and the
\* error variable as the arm finds them: what the arm can leave.  The
\* string arm keeps the error of WriteString and not that of WriteByte
WriteField(kind, v, w, failAt) ==
  CASE kind = "hdr" -> { BufWrite(w, HeaderBytes(v), failAt) }
    [] kind = "i32" -> { BufWrite(w, LE32(v), failAt) }
    [] kind = "i64" -> { BufWrite(w, LE64(v), failAt) }
    [] kind = "str" -> { WriteByte(WriteString(w, v, failAt), 0, failAt) }
    [] kind = "doc" -> writeBson(v, w, failAt)
    [] kind = "docs" -> WriteDocs(v.elems, w, failAt)
    [] kind = "i64s" -> { WriteInt64s(v.elems, w, failAt) }

\* the field loop of WriteRequest from field i on: every field is written,
\* whatever e holds
RECURSIVE WriteFields(_, _, _, _)
WriteFields(req, i, w, failAt) ==
  LET f == Fields(req.MsgHeader.Opcode)[i]
  IN  IF i > NumField(req.MsgHeader.Opcode) THEN { w }
      ELSE UNION { WriteFields(req, i + 1, x, failAt) :
                     x \in WriteField(f.kind, req[f.name], w, failAt) }

\* WriteRequest(req, w) as the set of its outcomes when the failAt-th write
\* to w fails: the fields are written, then the deferred Flush runs, whose
\* error is dropped; err is the error returned (e after the last field)
WriteRequest(req, failAt) ==
  { Flush(x, failAt) : x \in WriteFields(req, 1, NewWriter, failAt) }

\* the bytes a WriteRequest has written to w when it returns
Written(w) == IF w.cuts = << >> THEN << >> ELSE SubSeq(w.bytes, 1, w.cuts[Len(w.cuts)])

(***************************************************************************)
(* Frames on the wire.  The inputs of the model are built from in-memory   *)
(* messages by the wire format itself (MongoDB's, which writes every       *)
(* document that is present, the empty one as its five bytes), so that a   *)
(* frame and the message it carries are known independently of the code.   *)
(***************************************************************************)
\* most elements of a []bson.D or []int64 field of an input
MaxElems == 2

Names == { << >>, << 97 >> }

Counts == { 0, 1, 5 }

CursorIDValues == { I64(1, 0), I64(-1, -1) }

\* the bson.M {a: 1, b: 2}
ScopeAB ==
  Value("M", MapOf(<< DocElem(<< 97 >>, Int32Value(1)),
                      DocElem(<< 98 >>, Int32Value(2)) >>))

\* {}, {a: 1}, {b: "c", d: true} and {j: JavaScript{Code: "x", Scope: {a: 1,
\* b: 2}}}
DocValues ==
  { Doc(<< >>), Doc(<< DocElem(<< 97 >>, Int32Value(1)) >>),
    Doc(<< DocElem(<< 98 >>, Value("string", << 99 >>)),
           DocElem(<< 100 >>, Value("bool", TRUE)) >>),
    Doc(<< DocElem(<< 106 >>,
                   Value("JavaScript", [Code |-> << 120 >>, Scope |-> ScopeAB])) >>) }

\* the sequences over S of length lo..hi
SeqsOf(S, lo, hi) == UNION { [1..n -> S] : n \in lo..hi }

\* a slice field of an input: nil when it has no element
SliceOf(es) == IF es = << >> THEN NilSlice ELSE Slice(es)

\* the messages of each variant the inputs are built from (the header's
\* MessageLength is set when the frame is built)
Msgs(op) ==
  LET z == newReq(MsgHeader(0, 7, 0, op))
  IN  CASE op = OP_QUERY ->
             { [z EXCEPT !.FullCollectionName = n, !.NumberToReturn = k,
                         !.Query = q, !.ReturnFieldsSelector = r] :
                 n \in Names, k \in Counts, q \in DocValues,
                 r \in DocValues \cup {NilDoc} }
        [] op = OP_UPDATE ->
             { [z EXCEPT !.FullCollectionName = n, !.Selector = q, !.Update = r] :
                 n \in Names, q \in DocValues, r \in DocValues }
        [] op = OP_INSERT ->
             { [z EXCEPT !.FullCollectionName = n, !.Documents = Slice(ds)] :
                 n \in Names, ds \in SeqsOf(DocValues, 1, MaxElems) }
        [] op = OP_GET_MORE ->
             { [z EXCEPT !.FullCollectionName = n, !.NumberToReturn = k,
                         !.CursorID = c] :
                 n \in Names, k \in Counts, c \in CursorIDValues }
        [] op = OP_DELETE ->
             { [z EXCEPT !.FullCollectionName = n, !.Selector = q] :
                 n \in Names, q \in DocValues }
        [] op = OP_KILL_CURSORS ->
             { [z EXCEPT !.NumberOfCursorIDs = k, !.CursorIDs = SliceOf(cs)] :
                 k \in Counts, cs \in SeqsOf(CursorIDValues, 0, MaxElems) }
        [] op = OP_MSG ->
             { [z EXCEPT !.Message = n] : n \in Names }
        [] op = OP_REPLY ->
             { [z EXCEPT !.CursorID = c, !.NumberReturned = k,
                         !.Documents = SliceOf(ds)] :
                 c \in CursorIDValues, k \in Counts,
                 ds \in SeqsOf(DocValues, 0, MaxElems) }

\* a document on the wire: the names of a map in one of their orders
WireDoc(d) == CHOOSE b \in Marshal(d) : TRUE

RECURSIVE WireDocs(_)
WireDocs(data) ==
  IF data = << >> THEN << >> ELSE WireDoc(data[1]) \o WireDocs(Tail(data))

RECURSIVE WireInt64s(_)
WireInt64s(data) ==
  IF data = << >> THEN << >> ELSE LE64(data[1]) \o WireInt64s(Tail(data))

\* a field on the wire: a document that is present is written whatever it
\* holds, a nil one (the optional field left out) is absent
WireField(kind, v) ==
  CASE kind = "doc" -> IF v.isNil THEN << >> ELSE WireDoc(v)
    [] kind = "docs" -> WireDocs(v.elems)
    [] kind = "i32" -> LE32(v)
    [] kind = "i64" -> LE64(v)
    [] kind = "str" -> v \o << 0 >>
    [] kind = "i64s" -> WireInt64s(v.elems)

\* the bytes of the body fields 2..i of m
RECURSIVE WireBody(_, _)
WireBody(m, i) ==
  LET f == Fields(m.MsgHeader.Opcode)[i]
  IN  IF i < 2 THEN << >>
      ELSE WireBody(m, i - 1) \o WireField(f.kind, m[f.name])

\* m with the fields after the i-th at their zero value
ZeroAfter(m, i) ==
  LET op == m.MsgHeader.Opcode
  IN  [ n \in FieldNames(op) |->
          IF (CHOOSE k \in 1..NumField(op) : Fields(op)[k].name = n) <= i
            THEN m[n] ELSE ZeroValue(KindOf(op, n)) ]

\* the differences between the declared MessageLength and the frame's size
Deltas == { -9, -1, 0, 4, 8 }

\* a frame that follows on the same stream: an OP_MSG frame of message "a"
\* (request 16, so that a decoder taking these bytes for a document meets
\* the element kind 0x10 and no other)
NextFrame == HeaderBytes(MsgHeader(18, 16, 0, OP_MSG)) \o << 97, 0 >>

Tails == { << >>, NextFrame }

\* opcodes newReq has no case for
UnknownOps == { 0, RESERVED, 9999 }

\* declared lengths up to the size of the header
HeaderLengths == { -1, 0, HEADER_SIZE - 1, HEADER_SIZE }

\* a document holding a value that cannot be marshalled
ChanDoc == Doc(<< DocElem(<< 97 >>, ChanValue) >>)

\* the messages made from m by putting ChanDoc in the place of one document
\* (a bson.D field, or an element of a []bson.D field)
WithChan(m) ==
  LET op == m.MsgHeader.Opcode
  IN  UNION { IF KindOf(op, n) = "doc" THEN { [m EXCEPT ![n] = ChanDoc] }
              ELSE IF KindOf(op, n) = "docs"
                THEN { [m EXCEPT ![n] = Slice([@.elems EXCEPT ![k] = ChanDoc])] :
                         k \in 1..Len(m[n].elems) }
              ELSE { } : n \in FieldNames(op) }

\* the input made of the first i fields of m0, declaring delta bytes more
\* than it has and followed by tail: msg is the message the frame carries,
\* size the frame's own length, full whether no field was left out
Input(m0, i, delta, tail) ==
  LET body == WireBody(m0, i)
      size == HEADER_SIZE + Len(body)
      h == [m0.MsgHeader EXCEPT !.MessageLength = size + delta]
      m == [ZeroAfter(m0, i) EXCEPT !.MsgHeader = h]
  IN  [stream |-> HeaderBytes(h) \o body \o tail, msg |-> m, size |-> size,
       delta |-> delta, nfields |-> i,
       full |-> i = NumField(h.Opcode), tail |-> Len(tail)]

\* a header of an unknown opcode followed by four body bytes and tail
UnknownInput(op, tail) ==
  LET h == MsgHeader(HEADER_SIZE + 4, 7, 0, op)
  IN  [stream |-> HeaderBytes(h) \o LE32(1) \o tail, msg |-> [MsgHeader |-> h],
       size |-> HEADER_SIZE + 4, delta |-> 0, nfields |-> 1, full |-> FALSE,
       tail |-> Len(tail)]

\* the bytes of the input's frame, without what follows it on the stream
FrameOf(in) == SubSeq(in.stream, 1, in.size)

\* a frame as the protocol defines it: every field of the schema present
\* (the optional trailing document aside) and the length declared right
WellFormed(in) == in.full /\ in.delta = 0

(***************************************************************************)
(* State                                                                   *)
(***************************************************************************)
\* the connections the listener can accept
ConnIds == { 1, 2 }

VARIABLES
  phase,      \* codec runs: "stream", "decoded", "encoded", "written", "reread"
  input,      \* codec runs: the input of the run
  dec,        \* codec runs: what ReadRequest gave
  enc,        \* codec runs: the bytes WriteRequest wrote
  encMsg,     \* codec runs: the message given to WriteRequest by WriteValue
  encErr,     \* codec runs: the error WriteRequest returned
  LogResp,    \* Proxy.LogResp
  pc,         \* where handleConnection is, per connection
  script,     \* the frames the client has still to send
  cin,        \* the bytes the client sent that conn has not yet given out
  cinClosed,  \* the client closed its side: end-of-stream follows cin
  mode,       \* what the backend does with what it receives
  bin,        \* the bytes the backend sent that c has not yet given out
  binClosed,  \* the backend closed its side
  toBackend,  \* the bytes written to c that the backend has not yet taken
  toClient,   \* the bytes written to conn
  r,          \* the variable r of handleConnection
  log,        \* the records printed
  crashed,    \* a goroutine panicked: the process is gone
  hist,       \* per connection, the steps of the loop done so far
  sock,       \* per connection, the proxy's two sockets: conn and c
  reset,      \* per connection, which peer has reset: writes to it fail
  call        \* per connection, the call of ReadRequest that is waiting

codecVars == << phase, input, dec, enc, encMsg, encErr >>

relayVars ==
  << LogResp, pc, script, cin, cinClosed, mode, bin, binClosed, toBackend,
     toClient, r, log, crashed, hist, sock, reset, call >>

vars == << codecVars, relayVars >>

NoResult == Result("block", "nil", NoReq, 0, 0, 0, 0)

NoInput == UnknownInput(0, << >>)

\* how many backend connections were dialled for the connection, how many
\* requests were read from the client and how many written to the backend
\* in full, and the headers of the replies read from the backend and of
\* those written to the client in full, in order
NoHist ==
  [dialed |-> 0, reqRead |-> 0, reqWritten |-> 0, replyRead |-> << >>,
   replyWritten |-> << >>]

\* the sockets of a connection that was not accepted
NoConn == [conn |-> "nil", c |-> "nil"]

\* no peer has reset its connection
NoReset == [conn |-> FALSE, c |-> FALSE]

\* a call of ReadRequest that has taken nothing from its stream yet, or of
\* WriteRequest that has written nothing to its connection yet.  While a
\* ReadRequest waits for more bytes, taken are the bytes it has got from the
\* stream so far and marks how many they were each time it waited; between
\* the writes a WriteRequest makes to its connection, sent are the bytes
\* written so far and writes how many writes they took
NoCall == [taken |-> << >>, marks |-> << >>, sent |-> << >>, writes |-> 0]

\* the call after it has taken all of avail and waits for more
Waiting(cl, avail) ==
  [cl EXCEPT !.taken = @ \o avail,
             !.marks = Append(@, Len(cl.taken) + Len(avail))]

\* the call of WriteRequest after its next write to the connection gave chunk
Sending(cl, chunk) == [cl EXCEPT !.sent = @ \o chunk, !.writes = @ + 1]

\* the next write to its connection of the WriteRequest(req, w) in progress
\* as cl, fails saying whether the peer has reset the connection: the bytes
\* it puts on the connection, whether the call returns after it (a failed
\* write is the call's last) and the error the call then returns
NextWrite(req, cl, fails) ==
  { [chunk |-> IF fails THEN << >>
               ELSE SubSeq(w.bytes, Len(cl.sent) + 1, w.cuts[cl.writes + 1]),
     returns |-> fails \/ Len(w.cuts) = cl.writes + 1,
     err |-> w.err] :
      w \in { x \in WriteRequest(req, IF fails THEN cl.writes + 1 ELSE 0) :
                /\ Len(x.bytes) >= Len(cl.sent)
                /\ SubSeq(x.bytes, 1, Len(cl.sent)) = cl.sent } }

\* the stream a call finds: what it has taken already, then what is there
StreamOf(cl, avail, closed) == In(cl.taken \o avail, cl.marks, closed)

\* the relay's variables before any connection is accepted
RelayIdle ==
  /\ LogResp = FALSE
  /\ pc = [c \in ConnIds |-> "none"]
  /\ script = [c \in ConnIds |-> << >>]
  /\ cin = [c \in ConnIds |-> << >>]
  /\ cinClosed = [c \in ConnIds |-> FALSE]
  /\ mode = [c \in ConnIds |-> "none"]
  /\ bin = [c \in ConnIds |-> << >>]
  /\ binClosed = [c \in ConnIds |-> FALSE]
  /\ toBackend = [c \in ConnIds |-> << >>]
  /\ toClient = [c \in ConnIds |-> << >>]
  /\ r = [c \in ConnIds |-> NoReq]
  /\ log = << >>
  /\ crashed = FALSE
  /\ hist = [c \in ConnIds |-> NoHist]
  /\ sock = [c \in ConnIds |-> NoConn]
  /\ reset = [c \in ConnIds |-> NoReset]
  /\ call = [c \in ConnIds |-> NoCall]

CodecIdle ==
  /\ phase = "relay" /\ input = NoInput /\ dec = NoResult
  /\ enc = << >> /\ encMsg = NoReq /\ encErr = "nil"

(***************************************************************************)
(* The codec on its own: a stream holding one input is decoded and the     *)
(* message written back (ReadRequest, then WriteRequest), or the message   *)
(* of a well-formed input is written and the bytes decoded (WriteRequest,  *)
(* then ReadRequest).  The stream is closed after the input, as a          *)
(* bytes.Reader is.                                                        *)
(***************************************************************************)
CodecInit ==
  /\ \E op \in KnownOps \cup UnknownOps :
       IF op \in KnownOps
         THEN \E m0 \in Msgs(op), t \in Tails :
                \/ \E i \in 1..NumField(op), d \in Deltas :
                     /\ (i = NumField(op) \/ d = 0)
                     /\ input = Input(m0, i, d, t)
                \/ \E n \in HeaderLengths :
                     input = Input(m0, NumField(op),
                                   n - Input(m0, NumField(op), 0, t).size, t)
       ELSE \E t \in Tails : input = UnknownInput(op, t)
  /\ phase = "stream"
  /\ dec = NoResult
  /\ enc = << >>
  /\ encMsg = NoReq
  /\ encErr = "nil"
  /\ RelayIdle

Decode ==
  /\ phase = "stream"
  /\ dec' = ReadRequest(input.stream, TRUE)
  /\ phase' = "decoded"
  /\ UNCHANGED << input, enc, encMsg, encErr, relayVars >>

Encode ==
  /\ phase = "decoded"
  /\ dec.st = "ok"
  /\ \E w \in WriteRequest(dec.req, 0) :
       /\ enc' = Written(w)
       /\ encErr' = w.err
  /\ phase' = "encoded"
  /\ UNCHANGED << input, dec, encMsg, relayVars >>

WriteMsg ==
  /\ phase = "stream"
  /\ WellFormed(input)
  /\ \E w \in WriteRequest(input.msg, 0) :
       /\ enc' = Written(w)
       /\ encErr' = w.err
  /\ phase' = "written"
  /\ UNCHANGED << input, dec, encMsg, relayVars >>

\* WriteRequest of a message one of whose documents cannot be marshalled
WriteValue ==
  /\ phase = "stream"
  /\ WellFormed(input)
  /\ \E m \in WithChan(input.msg) :
       \E w \in WriteRequest(m, 0) :
         /\ encMsg' = m
         /\ enc' = Written(w)
         /\ encErr' = w.err
  /\ phase' = "wrote"
  /\ UNCHANGED << input, dec, relayVars >>

Reread ==
  /\ phase = "written"
  /\ dec' = ReadRequest(enc, TRUE)
  /\ phase' = "reread"
  /\ UNCHANGED << input, enc, encMsg, encErr, relayVars >>

CodecNext == Decode \/ Encode \/ WriteMsg \/ Reread \/ WriteValue

SpecCodec == CodecInit /\ [][CodecNext]_vars

(***************************************************************************)
(* The relay: Proxy.handleConnection, one goroutine per accepted           *)
(* connection, with the client and the backend as its environment.  conn   *)
(* is the client's socket, c the backend's.                                *)
(***************************************************************************)
\* most frames a client sends
MaxFrames == 2

QueryOf(q) ==
  Input([newReq(MsgHeader(0, 7, 0, OP_QUERY)) EXCEPT
           !.FullCollectionName = << 97 >>, !.NumberToReturn = 1, !.Query = q],
        NumField(OP_QUERY), 0, << >>).stream

\* a Query for {a: 1} and one for {}
QueryA == QueryOf(Doc(<< DocElem(<< 97 >>, Int32Value(1)) >>))
QueryEmpty == QueryOf(Doc(<< >>))

\* QueryA cut two bytes short
Truncated == SubSeq(QueryA, 1, Len(QueryA) - 2)

\* a Query whose document declares the size -1
NegativeDoc == SubSeq(QueryEmpty, 1, Len(QueryEmpty) - 5) \o LE32(-1)

\* an OP_MSG whose message fills bufWriter's buffer by itself
BigMsg ==
  Input([newReq(MsgHeader(0, 7, 0, OP_MSG)) EXCEPT
           !.Message = [i \in 1..defaultBufSize |-> 97]],
        NumField(OP_MSG), 0, << >>).stream

ClientFrames ==
  { QueryA, QueryEmpty, UnknownInput(9999, << >>).stream,
    UnknownInput(RESERVED, << >>).stream, Truncated, NegativeDoc, BigMsg }

ReplyOf(id, ds) ==
  Input([newReq(MsgHeader(0, id, 7, OP_REPLY)) EXCEPT
           !.NumberReturned = Len(ds), !.Documents = SliceOf(ds)],
        NumField(OP_REPLY), 0, << >>).stream

\* what the backend of connection c answers with in mode "serve": its
\* replies carry request ids that end in c
ReplyFrames(c) ==
  { ReplyOf(20 + c, << Doc(<< DocElem(<< 97 >>, Int32Value(1)) >>) >>),
    ReplyOf(30 + c, << >>), UnknownInput(9999, << >>).stream }

\* Opcode.String()
OpcodeString(o) ==
  CASE o = OP_DELETE -> "OP_DELETE"
    [] o = OP_GET_MORE -> "OP_GET_MORE"
    [] o = OP_INSERT -> "OP_INSERT"
    [] o = OP_KILL_CURSORS -> "OP_KILL_CURSORS"
    [] o = OP_MSG -> "OP_MSG"
    [] o = OP_QUERY -> "OP_QUERY"
    [] o = OP_REPLY -> "OP_REPLY"
    [] o = OP_UPDATE -> "OP_UPDATE"
    [] OTHER -> "UNKNOWN"

\* the error of a net.Dial that fails
ErrDial == "dial tcp: connection refused"

\* LogMsg, without its times
LogMsg(type, content) == [Type |-> type, Content |-> content]

\* the log after a ReadRequest that gave res: the message under its opcode's
\* name (requests always, replies when logging is asked for: always = TRUE
\* for a request, LogResp for a reply), an error other than io.EOF as ERROR
Logged(res, always) ==
  IF res.st = "ok"
    THEN IF always
           THEN Append(log, LogMsg(OpcodeString(res.req.MsgHeader.Opcode), res.req))
         ELSE log
  ELSE IF res.st = "err" /\ res.err # EOF THEN Append(log, LogMsg("ERROR", res.err))
  ELSE log

\* After with `continue` in place of `break` on an error
AfterContinue(res, on, at) == IF res.st = "ok" THEN on ELSE at

\* where handleConnection goes after a ReadRequest that gave res: on, out of
\* the loop (the deferred Close of both sockets runs), or nowhere (a panic)
After(res, on, at) ==
  IF res.st = "ok" THEN on ELSE IF res.st = "err" THEN "closed" ELSE at

\* the sockets of a connection just accepted: conn is open, c is nil until
\* net.Dial gives it
NoSock == [conn |-> "open", c |-> "nil"]

\* only the deferred conn.Close() runs
DeferredConnOnly(s) == [s EXCEPT !.conn = "closed"]

\* the sockets after handleConnection has returned (or panicked) in its
\* loop: the deferred conn.Close() and c.Close() have run
Deferred(s) == [conn |-> "closed", c |-> "closed"]

\* the sockets after a ReadRequest that gave res
Sockets(res, s) == IF res.st \in {"err", "panic"} THEN Deferred(s) ELSE s

\* every goroutine uses the backend connection of connection 1
BackendShared(c) == 1

\* the backend connection of the goroutine serving c: its local variable c,
\* which net.Dial gave it
BackendOf(c) == c

\* the connections of C are accepted; the client of c has the frames sc[c]
\* to send and its backend does md[c]
RelayStart(C, sc, md) ==
  /\ LogResp \in BOOLEAN
  /\ pc = [c \in ConnIds |-> IF c \in C THEN "dial" ELSE "none"]
  /\ script = [c \in ConnIds |-> IF c \in C THEN sc[c] ELSE << >>]
  /\ mode = [c \in ConnIds |-> IF c \in C THEN md[c] ELSE "none"]
  /\ cin = [c \in ConnIds |-> << >>]
  /\ cinClosed = [c \in ConnIds |-> FALSE]
  /\ bin = [c \in ConnIds |-> << >>]
  /\ binClosed = [c \in ConnIds |-> FALSE]
  /\ toBackend = [c \in ConnIds |-> << >>]
  /\ toClient = [c \in ConnIds |-> << >>]
  /\ r = [c \in ConnIds |-> NoReq]
  /\ log = << >>
  /\ crashed = FALSE
  /\ hist = [c \in ConnIds |-> NoHist]
  /\ sock = [c \in ConnIds |-> IF c \in C THEN NoSock ELSE NoConn]
  /\ reset = [c \in ConnIds |-> NoReset]
  /\ call = [c \in ConnIds |-> NoCall]

\* any clients, each backend echoing, serving or down
RelayInit(C) ==
  /\ \E sc \in [C -> SeqsOf(ClientFrames, 0, MaxFrames)] :
       \E md \in [C -> {"echo", "serve", "down"}] : RelayStart(C, sc, md)
  /\ CodecIdle

\* net.Dial gives a connection: the two Close are deferred, the loop starts
DialOk(c) ==
  /\ ~crashed
  /\ pc[c] = "dial"
  /\ mode[c] # "down"
  /\ pc' = [pc EXCEPT ![c] = "readReq"]
  /\ sock' = [sock EXCEPT ![c].c = "open"]
  /\ hist' = [hist EXCEPT ![c].dialed = @ + 1]
  /\ UNCHANGED << codecVars, LogResp, script, cin, cinClosed, mode, bin, binClosed,
                  toBackend, toClient, r, log, crashed, reset, call >>

\* net.Dial fails: c is nil and `defer c.Close()` panics on it, before
\* conn.Close is deferred and before anything is logged
DialFail(c) ==
  /\ ~crashed
  /\ pc[c] = "dial"
  /\ mode[c] = "down"
  /\ crashed' = TRUE
  /\ UNCHANGED << codecVars, LogResp, pc, script, cin, cinClosed, mode, bin,
                  binClosed, toBackend, toClient, r, log, hist, sock, reset, call >>

\* ReadRequest(conn) of connection c as far as it gets with the bytes there
ClientCall(c) == ReadRequestFrom(StreamOf(call[c], cin[c], cinClosed[c]))

\* ReadRequest(c) of connection c as far as it gets with the bytes there
BackendCall(c) ==
  ReadRequestFrom(StreamOf(call[c], bin[BackendOf(c)], binClosed[BackendOf(c)]))

\* r, e = ReadRequest(conn), and what the loop does with e.  The call takes
\* bytes from conn as its reads ask for them; when it needs more than there
\* is it keeps what it has taken and waits, and goes on when bytes arrive or
\* the stream ends.  r is nil unless a message was read
ReadClient(c) ==
  /\ ~crashed
  /\ pc[c] = "readReq"
  /\ ~(cin[c] = << >> /\ ~cinClosed[c])
  /\ \E res \in { ClientCall(c) } :
         /\ cin' = [cin EXCEPT ![c] = Drop(@, res.consumed - Len(call[c].taken))]
         /\ call' = [call EXCEPT ![c] =
                       IF res.st = "block" THEN Waiting(@, cin[c]) ELSE NoCall]
         /\ crashed' = (res.st = "panic")
         /\ log' = Logged(res, TRUE)
         /\ pc' = [pc EXCEPT ![c] = After(res, "writeReq", @)]
         /\ r' = [r EXCEPT ![c] = IF res.st = "ok" THEN res.req ELSE NoReq]
         /\ hist' = [hist EXCEPT ![c].reqRead = IF res.st = "ok" THEN @ + 1 ELSE @]
         /\ sock' = [sock EXCEPT ![c] = Sockets(res, @)]
  /\ UNCHANGED << codecVars, LogResp, script, cinClosed, mode, bin, binClosed,
                  toBackend, toClient, reset >>

\* e = WriteRequest(r, c), one write to c per step: the writes bufWriter
\* makes when its buffer is full, then the one of the deferred Flush.  A
\* backend that resets the connection makes the next write fail;
\* WriteRequest returns that error when a field's write met it and drops it
\* when the deferred Flush did.  An e that is not nil is logged and ends the
\* loop.  hist counts the requests written to c in full
WriteBackend(c) ==
  /\ ~crashed
  /\ pc[c] = "writeReq"
  /\ \E nw \in NextWrite(r[c], call[c], reset[c].c) :
       LET e == IF nw.returns THEN nw.err ELSE "nil"
       IN  /\ toBackend' = [toBackend EXCEPT ![BackendOf(c)] = @ \o nw.chunk]
           /\ call' = [call EXCEPT ![c] =
                         IF nw.returns THEN NoCall ELSE Sending(@, nw.chunk)]
           /\ pc' = [pc EXCEPT ![c] =
                       IF ~nw.returns THEN @
                       ELSE IF e = "nil" THEN "readReply" ELSE "closed"]
           /\ log' = IF e = "nil" THEN log ELSE Append(log, LogMsg("ERROR", e))
           /\ sock' = [sock EXCEPT ![c] = IF e = "nil" THEN @ ELSE Deferred(@)]
           /\ hist' = [hist EXCEPT ![c].reqWritten =
                         IF nw.returns /\ ~reset[c].c THEN @ + 1 ELSE @]
  /\ UNCHANGED << codecVars, LogResp, script, cin, cinClosed, mode, bin, binClosed,
                  toClient, r, crashed, reset >>

\* r, e = ReadRequest(c), and what the loop does with e: the call takes
\* bytes from c and waits as the one on conn does; after an error r is nil,
\* after a panic it is what it was
ReadReply(c) ==
  /\ ~crashed
  /\ pc[c] = "readReply"
  /\ ~(bin[BackendOf(c)] = << >> /\ ~binClosed[BackendOf(c)])
  /\ \E res \in { BackendCall(c) } :
         /\ bin' = [bin EXCEPT ![BackendOf(c)] =
                      Drop(@, res.consumed - Len(call[c].taken))]
         /\ call' = [call EXCEPT ![c] =
                       IF res.st = "block" THEN Waiting(@, bin[BackendOf(c)])
                       ELSE NoCall]
         /\ crashed' = (res.st = "panic")
         /\ log' = Logged(res, LogResp)
         /\ pc' = [pc EXCEPT ![c] = After(res, "writeReply", @)]
         /\ r' = [r EXCEPT ![c] =
                    IF res.st = "ok" THEN res.req
                    ELSE IF res.st = "err" THEN NoReq ELSE @]
         /\ hist' = [hist EXCEPT ![c].replyRead =
                       IF res.st = "ok" THEN Append(@, res.req.MsgHeader) ELSE @]
         /\ sock' = [sock EXCEPT ![c] = Sockets(res, @)]
  /\ UNCHANGED << codecVars, LogResp, script, cin, cinClosed, mode, binClosed,
                  toBackend, toClient, reset >>

\* WriteRequest(r, conn), one write to conn per step; its result is not
\* looked at, and the loop goes back to its head, where r is declared anew
\* (nil).  A client that has reset the connection makes the next write
\* fail.  hist has the replies written to conn in full
WriteClient(c) ==
  /\ ~crashed
  /\ pc[c] = "writeReply"
  /\ \E nw \in NextWrite(r[c], call[c], reset[c].conn) :
       /\ toClient' = [toClient EXCEPT ![c] = @ \o nw.chunk]
       /\ call' = [call EXCEPT ![c] =
                     IF nw.returns THEN NoCall ELSE Sending(@, nw.chunk)]
       /\ pc' = [pc EXCEPT ![c] = IF nw.returns THEN "readReq" ELSE @]
       /\ r' = [r EXCEPT ![c] = IF nw.returns THEN NoReq ELSE @]
       /\ hist' = [hist EXCEPT ![c].replyWritten =
                     IF nw.returns /\ ~reset[c].conn
                       THEN Append(@, r[c].MsgHeader) ELSE @]
  /\ UNCHANGED << codecVars, LogResp, script, cin, cinClosed, mode, bin, binClosed,
                  toBackend, log, crashed, sock, reset >>

\* the client sends its next frame
ClientSend(c) ==
  /\ ~crashed
  /\ pc[c] \notin {"none", "closed"}
  /\ script[c] # << >>
  /\ cin' = [cin EXCEPT ![c] = @ \o Head(script[c])]
  /\ script' = [script EXCEPT ![c] = Tail(@)]
  /\ UNCHANGED << codecVars, LogResp, pc, cinClosed, mode, bin, binClosed,
                  toBackend, toClient, r, log, crashed, hist, sock, reset, call >>

\* the client, having sent everything, closes its side
ClientClose(c) ==
  /\ ~crashed
  /\ pc[c] \notin {"none", "closed"}
  /\ script[c] = << >>
  /\ ~cinClosed[c]
  /\ cinClosed' = [cinClosed EXCEPT ![c] = TRUE]
  /\ UNCHANGED << codecVars, LogResp, pc, script, cin, mode, bin, binClosed,
                  toBackend, toClient, r, log, crashed, hist, sock, reset, call >>

\* the client aborts its connection while the relay is busy with a request
\* (the relay's next operation on conn is the write of the reply): nothing
\* more is sent, the bytes already received stay readable, writes to conn
\* fail from now on (the pending reset is reported to the first of them)
ClientReset(c) ==
  /\ ~crashed
  /\ pc[c] \in {"writeReq", "readReply", "writeReply"}
  /\ ~reset[c].conn
  /\ reset' = [reset EXCEPT ![c].conn = TRUE]
  /\ cinClosed' = [cinClosed EXCEPT ![c] = TRUE]
  /\ script' = [script EXCEPT ![c] = << >>]
  /\ UNCHANGED << codecVars, LogResp, pc, cin, mode, bin, binClosed,
                  toBackend, toClient, r, log, crashed, hist, sock, call >>

\* an echoing backend sends back the bytes it received
BackendEcho(c) ==
  /\ ~crashed
  /\ mode[c] = "echo"
  /\ pc[c] # "closed"
  /\ toBackend[c] # << >>
  /\ bin' = [bin EXCEPT ![c] = @ \o toBackend[c]]
  /\ toBackend' = [toBackend EXCEPT ![c] = << >>]
  /\ UNCHANGED << codecVars, LogResp, pc, script, cin, cinClosed, mode, binClosed,
                  toClient, r, log, crashed, hist, sock, reset, call >>

\* a serving backend answers what it received with a frame of its own
BackendReply(c) ==
  /\ ~crashed
  /\ mode[c] = "serve"
  /\ pc[c] # "closed"
  /\ ~binClosed[c]
  /\ toBackend[c] # << >>
  /\ \E f \in ReplyFrames(c) : bin' = [bin EXCEPT ![c] = @ \o f]
  /\ toBackend' = [toBackend EXCEPT ![c] = << >>]
  /\ UNCHANGED << codecVars, LogResp, pc, script, cin, cinClosed, mode, binClosed,
                  toClient, r, log, crashed, hist, sock, reset, call >>

\* a serving backend closes its side
BackendClose(c) ==
  /\ ~crashed
  /\ mode[c] = "serve"
  /\ pc[c] \notin {"none", "dial", "closed"}
  /\ ~binClosed[c]
  /\ binClosed' = [binClosed EXCEPT ![c] = TRUE]
  /\ UNCHANGED << codecVars, LogResp, pc, script, cin, cinClosed, mode, bin,
                  toBackend, toClient, r, log, crashed, hist, sock, reset, call >>

\* a serving backend aborts the connection while the relay is not waiting
\* for it (the relay's next operation on c is the write of a request):
\* writes to c fail from now on, and the stream from it has ended
BackendReset(c) ==
  /\ ~crashed
  /\ mode[c] = "serve"
  /\ pc[c] \in {"readReq", "writeReq"}
  /\ ~binClosed[c]
  /\ reset' = [reset EXCEPT ![c].c = TRUE]
  /\ binClosed' = [binClosed EXCEPT ![c] = TRUE]
  /\ UNCHANGED << codecVars, LogResp, pc, script, cin, cinClosed, mode, bin,
                  toBackend, toClient, r, log, crashed, hist, sock, call >>

\* the steps of handleConnection after a successful dial
Relay(c) == ReadClient(c) \/ WriteBackend(c) \/ ReadReply(c) \/ WriteClient(c)

\* one connection, any client, any backend
RelayConns == { 1 }

RelayNext ==
  \E c \in RelayConns :
    \/ DialOk(c) \/ DialFail(c) \/ Relay(c)
    \/ ClientSend(c) \/ ClientClose(c) \/ ClientReset(c)
    \/ BackendEcho(c) \/ BackendReply(c) \/ BackendClose(c) \/ BackendReset(c)

Spec == RelayInit(RelayConns) /\ [][RelayNext]_vars

\* one connection to a backend that echoes, and a client that sends one
\* well-formed Query frame and waits for the answer
EchoInit ==
  /\ \E m0 \in Msgs(OP_QUERY) :
       input = Input(m0, NumField(OP_QUERY), 0, << >>)
  /\ phase = "relay" /\ dec = NoResult /\ enc = << >>
  /\ encMsg = NoReq /\ encErr = "nil"
  /\ RelayStart(RelayConns, [c \in RelayConns |-> << input.stream >>],
                [c \in RelayConns |-> "echo"])

EchoNext ==
  \E c \in RelayConns :
    DialOk(c) \/ Relay(c) \/ ClientSend(c) \/ BackendEcho(c)

\* the goroutine runs when it can, and bytes sent arrive
EchoFair ==
  \A c \in RelayConns :
    /\ WF_vars(DialOk(c)) /\ WF_vars(Relay(c))
    /\ WF_vars(ClientSend(c)) /\ WF_vars(BackendEcho(c))

SpecEcho == EchoInit /\ [][EchoNext]_vars /\ EchoFair

(***************************************************************************)
(* Claims about the codec (checked under SpecCodec)                        *)
(***************************************************************************)
InputOp == input.msg.MsgHeader.Opcode

InputLength == input.msg.MsgHeader.MessageLength

\* C1: round trip.  A well-formed frame is decoded, and writing what was
\* decoded gives the frame's bytes back; writing the message of a
\* well-formed frame and decoding the bytes gives the message back.
C1_RoundTrip ==
  /\ (phase = "decoded" /\ WellFormed(input) => dec.st = "ok")
  /\ (phase = "encoded" /\ WellFormed(input) => enc = FrameOf(input))
  /\ (phase = "reread" => dec.st = "ok" /\ dec.req = input.msg)

\* C2: length invariant on encode.  The bytes WriteRequest writes for a
\* message ReadRequest returned are as many as the message's header says.
C2_EncodedLength ==
  phase = "encoded" => Len(enc) = dec.req.MsgHeader.MessageLength

\* C3: length invariant on decode.  When ReadRequest returns a message the
\* running byte counter equals the header's MessageLength.
C3_DecodedLength ==
  phase \in {"decoded", "reread"} /\ dec.st = "ok"
    => dec.bytesRead = dec.req.MsgHeader.MessageLength

\* C4: overshoot is always WrongLength.  A call whose byte counter went
\* beyond the header's MessageLength has failed with ErrorWrongLen.
C4_OvershootIsWrongLen ==
  phase = "decoded" /\ InputOp \in KnownOps /\ dec.bytesRead > InputLength
    => dec.st = "err" /\ dec.err = ErrorWrongLen

\* C5: a Query frame that declares four bytes more than its fields take
\* makes ReadRequest fail with ErrorWrongLen, with query alone and with
\* query and returnFieldsSelector.
C5_QueryTooLong ==
  phase = "decoded" /\ InputOp = OP_QUERY /\ input.full /\ input.delta = 4
    => dec.st = "err" /\ dec.err = ErrorWrongLen

\* C6: short-circuit decoding.  A frame of a known opcode whose declared
\* length ends at a field boundary is decoded, the fields after the boundary
\* are zero, and no byte after MessageLength is taken from the stream.
C6_ShortCircuit ==
  phase = "decoded" /\ InputOp \in KnownOps /\ input.delta = 0
    => /\ dec.st = "ok"
       /\ dec.req = input.msg
       /\ dec.consumed = InputLength

\* the part of C6 about the decoded message alone
C6_ShortCircuitMessage ==
  phase = "decoded" /\ InputOp \in KnownOps /\ input.delta = 0
    => dec.st = "ok" /\ dec.req = input.msg /\ dec.used = InputLength

\* the slice field of a variant that has one
SliceField(op) ==
  CASE op = OP_INSERT -> "Documents"
    [] op = OP_REPLY -> "Documents"
    [] op = OP_KILL_CURSORS -> "CursorIDs"

\* the bytes of a KillCursors frame before its ids: header, ZERO, count
KillCursorsFixed == HEADER_SIZE + 8

\* C8: length-driven arrays.  For a frame whose declared length is its size,
\* the elements decoded into a []bson.D or []int64 field are the elements
\* the frame holds up to MessageLength, whatever the count field says; and
\* a KillCursors whose declared length leaves 8*k bytes for ids that the
\* stream has is decoded to k ids.
C8_LengthDrivenArrays ==
  /\ phase = "decoded" /\ InputOp \in {OP_INSERT, OP_REPLY, OP_KILL_CURSORS}
                       /\ input.delta = 0
       => /\ dec.st = "ok"
          /\ dec.req[SliceField(InputOp)] = input.msg[SliceField(InputOp)]
          /\ dec.used = InputLength
  /\ phase = "decoded" /\ InputOp = OP_KILL_CURSORS
                       /\ InputLength >= KillCursorsFixed
                       /\ (InputLength - KillCursorsFixed) % 8 = 0
                       /\ Len(input.stream) >= InputLength
       => /\ dec.st = "ok"
          /\ Len(dec.req.CursorIDs.elems) * 8 = InputLength - KillCursorsFixed

\* C8 witness: a KillCursors frame declaring five ids and holding two was
\* decoded to two ids
C8_Witness ==
  /\ phase = "decoded"
  /\ InputOp = OP_KILL_CURSORS
  /\ dec.st = "ok"
  /\ dec.req.NumberOfCursorIDs = 5
  /\ Len(dec.req.CursorIDs.elems) = 2

\* C13: clean close versus truncation (the decoder's part).  A stream that
\* ends after bytes of a frame were read and before the bytes its header
\* declares makes ReadRequest fail with an error other than io.EOF, the
\* error of a clean end-of-stream, so that the relay logs it.
C13_TruncationIsError ==
  phase = "decoded" /\ InputOp \in KnownOps /\ dec.st = "err"
                    /\ Len(input.stream) > 0
                    /\ Len(input.stream) < InputLength
    => dec.err # EOF

\* the message of NextFrame
NextMsg ==
  [newReq(ParseHeader(NextFrame)) EXCEPT !.Message = << 97 >>]

\* a second call of ReadRequest on the stream the first call left
SecondRead == ReadRequest(Drop(input.stream, dec.consumed), TRUE)

\* C15: exact stream consumption.  ReadRequest on a well-formed frame that
\* is followed on the stream by a second frame takes MessageLength bytes
\* from the stream, and a second call decodes the second frame.
C15_ExactConsumption ==
  phase = "decoded" /\ WellFormed(input) /\ input.tail > 0
    => /\ dec.st = "ok"
       /\ dec.consumed = InputLength
       /\ SecondRead.st = "ok"
       /\ SecondRead.req = NextMsg

\* C19: header-only and undersized frames.  For a known opcode, a header
\* declaring less than 16 bytes makes ReadRequest fail with ErrorWrongLen,
\* one declaring 16 makes it return the message with every body field
\* zero; in both cases no body read is made and the sixteen header bytes
\* are all that leaves the stream.
C19_HeaderOnly ==
  phase = "decoded" /\ InputOp \in KnownOps /\ InputLength <= HEADER_SIZE
    => /\ dec.reads = 0
       /\ dec.consumed = HEADER_SIZE
       /\ dec.used = HEADER_SIZE
       /\ IF InputLength < HEADER_SIZE
            THEN dec.st = "err" /\ dec.err = ErrorWrongLen
          ELSE dec.st = "ok" /\ dec.req = newReq(input.msg.MsgHeader)

\* C19 witness: a Query header declaring 16 bytes, with the bytes of a body
\* behind it on the stream, was decoded to a Query of zero fields
C19_Witness ==
  /\ phase = "decoded"
  /\ InputOp = OP_QUERY
  /\ InputLength = HEADER_SIZE
  /\ Len(input.stream) > HEADER_SIZE + 4
  /\ dec.st = "ok"
  /\ dec.req.FullCollectionName = << >>
  /\ dec.req.Query = NilDoc

\* a field of m has a document bson.Marshal gives an error for
EncodeFails(m) ==
  LET op == m.MsgHeader.Opcode
  IN  \E n \in FieldNames(op) :
        IF KindOf(op, n) = "doc"
          THEN Len(m[n].elems) > 0 /\ MarshalError(m[n]) # "nil"
        ELSE IF KindOf(op, n) = "docs"
          THEN \E k \in 1..Len(m[n].elems) :
                 Len(m[n].elems[k].elems) > 0 /\ MarshalError(m[n].elems[k]) # "nil"
        ELSE FALSE

\* C20: WriteRequest reports encode failures.  When the encoding of a field
\* of the message failed, WriteRequest returns an error.
C20_EncodeFailureReported ==
  phase = "wrote" /\ EncodeFails(encMsg) => encErr # "nil"

(***************************************************************************)
(* Claims about the relay (checked under Spec, SpecEcho and SpecTwo)       *)
(***************************************************************************)
\* the step ReadClient(c) was taken
ReadClientStep(c) ==
  /\ pc[c] = "readReq"
  /\ (pc'[c] # pc[c] \/ Len(cin'[c]) < Len(cin[c]))

\* C7: unknown opcode.  When the header at the head of the client's stream
\* has an opcode newReq does not know, ReadRequest(conn) takes the sixteen
\* header bytes and nothing else and gives ErrorOpcodeUnknown; the relay
\* logs it as an ERROR and leaves the loop, nothing written to the backend.
C7_UnknownOpcode ==
  [][ \A c \in ConnIds :
        ( /\ ReadClientStep(c)
          /\ Len(call[c].taken) < HEADER_SIZE
          /\ Len(call[c].taken \o cin[c]) >= HEADER_SIZE
          /\ ParseHeader(call[c].taken \o cin[c]).Opcode \notin KnownOps )
        => /\ cin'[c] = Drop(cin[c], HEADER_SIZE - Len(call[c].taken))
           /\ r'[c] = NoReq
           /\ pc'[c] = "closed"
           /\ ~crashed'
           /\ Len(log') = Len(log) + 1
           /\ log'[Len(log')].Type = "ERROR"
           /\ log'[Len(log')].Content = ErrorOpcodeUnknown
           /\ toBackend'[c] = toBackend[c]
           /\ hist'[c] = hist[c] ]_vars

\* C7 witness: the first frame of a client had an unknown opcode; the relay
\* has logged the error and closed, the frame's body is still unread and
\* the backend was sent nothing
C7_Witness ==
  \E c \in ConnIds :
    /\ pc[c] = "closed"
    /\ hist[c].reqRead = 0
    /\ Len(log) = 1
    /\ log[1].Type = "ERROR"
    /\ log[1].Content = ErrorOpcodeUnknown
    /\ cin[c] = LE32(1)
    /\ toBackend[c] = << >>

\* C9: strict alternation.  On a connection the relay reads request N,
\* writes it to the backend, reads reply N and writes it to the client, in
\* this order and again: request N+1 is read only after reply N was written
\* to the client, at most one request is with the backend, and the replies
\* go to the client in the order they came (written meaning that the bytes
\* were put on the connection).
C9_Alternation ==
  \A c \in ConnIds :
    LET h == hist[c]
        nr == Len(h.replyRead)
        nw == Len(h.replyWritten)
    IN  /\ nw <= nr /\ nr <= h.reqWritten /\ h.reqWritten <= h.reqRead
        /\ h.reqRead <= nw + 1
        /\ h.replyWritten = SubSeq(h.replyRead, 1, nw)
        /\ pc[c] = "writeReq" => h.reqRead = h.reqWritten + 1
        /\ pc[c] = "readReply" => h.reqWritten = nr + 1
        /\ pc[c] = "writeReply" => nr = nw + 1
        /\ pc[c] = "readReq" => h.reqRead = nw

\* C10: echo lifecycle.  With an echoing backend, the client that sent one
\* well-formed Query frame eventually has that frame back.
C10_EchoDelivered == <>(toClient[1] = input.stream)

(***************************************************************************)
(* Two connections at once: each client sends Query frames carrying its    *)
(* own request id, each backend echoes or answers with replies carrying    *)
(* its own.                                                                *)
(***************************************************************************)
\* the Query frame client c sends: request id c
TaggedQuery(c) ==
  Input([newReq(MsgHeader(0, c, 0, OP_QUERY)) EXCEPT
           !.FullCollectionName = << 97 >>, !.NumberToReturn = 1,
           !.Query = Doc(<< DocElem(<< 97 >>, Int32Value(1)) >>)],
        NumField(OP_QUERY), 0, << >>).stream

\* the first client sends up to MaxFrames frames, the second one frame
TwoInit ==
  /\ \E n \in 1..MaxFrames :
       \E md \in [ConnIds -> {"echo", "serve"}] :
         RelayStart(ConnIds,
                    [c \in ConnIds |->
                       [i \in 1..(IF c = 1 THEN n ELSE 1) |-> TaggedQuery(c)]],
                    md)
  /\ CodecIdle

TwoNext ==
  \E c \in ConnIds :
    \/ DialOk(c) \/ Relay(c)
    \/ ClientSend(c)
    \/ BackendEcho(c) \/ BackendReply(c)

SpecTwo == TwoInit /\ [][TwoNext]_vars

\* the connection a frame with header h belongs to
Tag(h) == h.RequestID % 10

\* C11: dial failure.  For a connection whose backend cannot be dialled,
\* handleConnection logs one ERROR record with the dial error, closes the
\* client socket and returns: no panic, no second dial, no read from the
\* client.
C11_DialFailure ==
  \A c \in ConnIds :
    mode[c] = "down"
      => /\ ~crashed
         /\ hist[c].dialed = 0
         /\ hist[c].reqRead = 0
         /\ pc[c] \in {"dial", "closed"}
         /\ pc[c] = "closed"
              => /\ Len(log) = 1
                 /\ log[1].Type = "ERROR"
                 /\ log[1].Content = ErrDial
                 /\ sock[c].conn = "closed"

\* C12: failure isolation.  No failure on a connection (the dial, a frame,
\* a decode error, an I/O error) ends the process.
C12_FailureIsolation == ~crashed

\* C14: concurrent independence.  Each connection has one backend
\* connection of its own; the replies read on a connection come from its
\* own backend and are the ones written to its client; the requests written
\* to a backend come from its own client.
C14_Independence ==
  \A c \in ConnIds :
    LET h == hist[c]
    IN  /\ h.dialed <= 1
        /\ pc[c] \notin {"none", "dial"} => h.dialed = 1
        /\ \A i \in 1..Len(h.replyRead) : Tag(h.replyRead[i]) = c
        /\ \A i \in 1..Len(h.replyWritten) : Tag(h.replyWritten[i]) = c
        /\ h.replyWritten = SubSeq(h.replyRead, 1, Len(h.replyWritten))
        /\ pc[c] \in {"writeReq", "writeReply"} => Tag(r[c].MsgHeader) = c
        /\ toBackend[c] # << >> => Tag(ParseHeader(toBackend[c])) = c
        /\ toClient[c] # << >> => Tag(ParseHeader(toClient[c])) = c

\* C14 witness: both connections have had a reply written to their client,
\* one from a serving backend and one from an echoing backend, and the
\* first has its second request with its backend
C14_Witness ==
  /\ mode[1] = "serve" /\ mode[2] = "echo"
  /\ Len(hist[1].replyWritten) = 1 /\ Len(hist[2].replyWritten) = 1
  /\ toClient[1] # << >> /\ toClient[2] # << >>
  /\ pc[1] = "readReply" /\ hist[1].reqWritten = 2

\* C16: terminal states release everything.  While the relay is in its loop
\* both sockets are open; once it has left the loop both are closed; and
\* from then on no step reads or writes either socket of the connection,
\* logs anything or changes the connection's state.
C16_TerminalRelease ==
  /\ [](\A c \in ConnIds :
          /\ pc[c] = "closed" => sock[c].conn = "closed" /\ sock[c].c = "closed"
          /\ pc[c] \in {"readReq", "writeReq", "readReply", "writeReply"} /\ ~crashed
               => sock[c].conn = "open" /\ sock[c].c = "open")
  /\ [][ \A c \in RelayConns :
           sock[c].conn = "closed" \/ sock[c].c = "closed"
             => /\ pc'[c] = pc[c] /\ sock'[c] = sock[c]
                /\ cin'[c] = cin[c] /\ bin'[c] = bin[c]
                /\ toBackend'[c] = toBackend[c] /\ toClient'[c] = toClient[c]
                /\ hist'[c] = hist[c]
                /\ Len(log') = Len(log) ]_vars

\* C16 witness: a connection that relayed a request and its reply has left
\* the loop with both sockets closed
C16_Witness ==
  \E c \in ConnIds :
    /\ pc[c] = "closed"
    /\ sock[c].conn = "closed" /\ sock[c].c = "closed"
    /\ hist[c].reqRead >= 1
    /\ Len(hist[c].replyWritten) >= 1

\* a write of the relay on a connection whose peer has reset it: the request
\* to the backend, or the reply to the client
WriteFails(c) ==
  \/ pc[c] = "writeReq" /\ reset[c].c /\ pc'[c] # pc[c]
  \/ pc[c] = "writeReply" /\ reset[c].conn /\ pc'[c] # pc[c]

\* the step appended one ERROR record to the log
ErrorLogged ==
  /\ Len(log') = Len(log) + 1
  /\ log'[Len(log')].Type = "ERROR"

\* C17: every I/O failure is fatal to the connection.  A failed write of the
\* request to the backend or of the reply to the client is logged and ends
\* the loop with both sockets closed: no further request is read.
C17_WriteFailureFatal ==
  [][ \A c \in ConnIds :
        WriteFails(c)
          => /\ ErrorLogged
             /\ pc'[c] = "closed"
             /\ sock'[c].conn = "closed" /\ sock'[c].c = "closed" ]_vars

\* the step ReadReply(c) was taken
ReadReplyStep(c) ==
  /\ pc[c] = "readReply"
  /\ (pc'[c] # pc[c] \/ Len(bin'[c]) < Len(bin[c]))

\* the step appended to the log one record of the message res.req, under
\* its opcode's name
FrameLogged(res) ==
  /\ Len(log') = Len(log) + 1
  /\ log'[Len(log')].Type = OpcodeString(res.req.MsgHeader.Opcode)
  /\ log'[Len(log')].Type # "ERROR"
  /\ log'[Len(log')].Content = res.req

\* what the log must show after a ReadRequest that gave res: the frame when
\* it was decoded and logging is on, one ERROR for an error other than
\* io.EOF, nothing otherwise
LoggedAfterRead(res, on) ==
  IF res.st = "ok" THEN IF on THEN FrameLogged(res) ELSE Len(log') = Len(log)
  ELSE IF res.st = "err" /\ res.err # EOF THEN ErrorLogged
  ELSE Len(log') = Len(log)

\* the part of C18 about the frames and errors ReadRequest gives: a request is
\* logged when it is decoded, before anything is written to the backend, a
\* reply when it is decoded and LogResp is set, before anything is written
\* to the client, an error other than io.EOF as one ERROR
C18_FrameLogging ==
  [][ \A c \in RelayConns :
        /\ ReadClientStep(c)
             => /\ LoggedAfterRead(ClientCall(c), TRUE)
                /\ toBackend'[c] = toBackend[c]
                /\ hist'[c].reqWritten = hist[c].reqWritten
        /\ ReadReplyStep(c)
             => /\ LoggedAfterRead(BackendCall(c), LogResp)
                /\ toClient'[c] = toClient[c]
                /\ hist'[c].replyWritten = hist[c].replyWritten ]_vars

\* C18: logging per frame.  Every request decoded is logged once under its
\* opcode's name before it is written to the backend, every reply decoded
\* is logged once exactly when LogResp is set, before it is written to the
\* client, and every error other than io.EOF (of a read, of a write, of the
\* dial) gives one ERROR record.
C18_LoggingPerFrame ==
  [][ \A c \in RelayConns :
        /\ ReadClientStep(c)
             => /\ LoggedAfterRead(ClientCall(c), TRUE)
                /\ toBackend'[c] = toBackend[c]
        /\ ReadReplyStep(c)
             => /\ LoggedAfterRead(BackendCall(c), LogResp)
                /\ toClient'[c] = toClient[c]
        /\ WriteFails(c) => ErrorLogged
        /\ pc[c] = "dial" /\ mode[c] = "down" /\ crashed' => ErrorLogged ]_vars

====
